---- MODULE Spec2Model ----
(***************************************************************************)
(* Model of the Livability Score API (src/main.py).                        *)
(*                                                                         *)
(* Two specifications share this module:                                   *)
(*   SpecCalc  - calculate_livability_score applied to inputs drawn from a *)
(*               grid of Python floats (finite, +inf, -inf, nan);          *)
(*   Spec      - the GET /livability_score endpoint serving concurrent     *)
(*               requests, each with one suspension point (the outbound    *)
(*               POST of ask_gemini_analysis).                             *)
(*                                                                         *)
(* A Python float is a record [k, v]: k is "fin", "pinf", "ninf" or "nan"  *)
(* and, for a finite float, v is its value in thousandths.  The inputs lie *)
(* on a grid on which every intermediate of the calculator is an exact     *)
(* number of thousandths, so binary rounding plays no part.                *)
(***************************************************************************)
EXTENDS Integers, Sequences, FiniteSets, TLC

----------------------------------------------------------------------------
(* Python floats                                                           *)

Milli(n) == n * 1000

Fin(v) == [k |-> "fin", v |-> v]
NaN == [k |-> "nan", v |-> 0]
PInf == [k |-> "pinf", v |-> 0]
NInf == [k |-> "ninf", v |-> 0]

IsNaN(a) == a.k = "nan"
IsFin(a) == a.k = "fin"

\* a < b ; every comparison with nan is False
FLt(a, b) ==
    /\ ~IsNaN(a)
    /\ ~IsNaN(b)
    /\ \/ a.k = "ninf" /\ b.k # "ninf"
       \/ b.k = "pinf" /\ a.k # "pinf"
       \/ IsFin(a) /\ IsFin(b) /\ a.v < b.v

FGt(a, b) == FLt(b, a)

\* a >= b
FGe(a, b) == ~IsNaN(a) /\ ~IsNaN(b) /\ ~FLt(a, b)

FLe(a, b) == FGe(b, a)

\* builtin max(a, b): the first argument is kept unless the second is greater
PyMax(a, b) == IF FGt(b, a) THEN b ELSE a

\* builtin min(a, b): the first argument is kept unless the second is smaller
PyMin(a, b) == IF FLt(b, a) THEN b ELSE a

FNeg(a) ==
    CASE a.k = "fin" -> Fin(0 - a.v)
      [] a.k = "pinf" -> NInf
      [] a.k = "ninf" -> PInf
      [] OTHER -> NaN

FAdd(a, b) ==
    CASE IsNaN(a) \/ IsNaN(b) -> NaN
      [] IsFin(a) /\ IsFin(b) -> Fin(a.v + b.v)
      [] IsFin(a) -> b
      [] IsFin(b) -> a
      [] a.k = b.k -> a
      [] OTHER -> NaN

FSub(a, b) == FAdd(a, FNeg(b))

\* a / d for a positive integer d
FDivInt(a, d) == IF IsFin(a) THEN Fin(a.v \div d) ELSE a

\* a * m for a positive integer m
FMulInt(a, m) == IF IsFin(a) THEN Fin(a.v * m) ELSE a

\* 0.5 * a
FHalf(a) == IF IsFin(a) THEN Fin(a.v \div 2) ELSE a

----------------------------------------------------------------------------
(* calculate_livability_score                                              *)

solar_score(solar) ==
    PyMin(PyMax(FMulInt(FDivInt(solar, 5), 100), Fin(0)), Fin(Milli(100)))

aqi_score_swapped(aqi) == PyMax(Fin(0), FSub(aqi, Fin(Milli(100))))

aqi_score_clamped(aqi) ==
    PyMin(PyMax(Fin(0), FSub(Fin(Milli(100)), aqi)), Fin(Milli(100)))

aqi_score(aqi) == PyMax(Fin(0), FSub(Fin(Milli(100)), aqi))

combined_score(solar, aqi) ==
    FAdd(FHalf(solar_score(solar)), FHalf(aqi_score(aqi)))

score_band_strict(combined) ==
    IF FGt(combined, Fin(Milli(70))) THEN <<"High", 80>>
    ELSE IF FGt(combined, Fin(Milli(40))) THEN <<"Medium", 50>>
    ELSE <<"Low", 20>>

\* the if / elif / else chain: <<score_label, habitable_years>>
score_band(combined) ==
    IF FGe(combined, Fin(Milli(70))) THEN <<"High", 80>>
    ELSE IF FGe(combined, Fin(Milli(40))) THEN <<"Medium", 50>>
    ELSE <<"Low", 20>>

\* the locals of one call; the function returns (score_label, habitable_years)
calculate_livability_score(solar, aqi) ==
    LET c == combined_score(solar, aqi) IN
    [ solar_score |-> solar_score(solar),
      aqi_score |-> aqi_score(aqi),
      combined_score |-> c,
      score_label |-> score_band(c)[1],
      habitable_years |-> score_band(c)[2] ]

----------------------------------------------------------------------------
(* JSON values as decoded by response.json(), and Python values           *)
(* A value is a record [t, v]: t is the type tag, v the content.  A str is *)
(* a sequence of chunks, so that concatenation is \o and a prefix is the   *)
(* first chunk.                                                            *)

JNull == [t |-> "null", v |-> 0]
JStr(chunks) == [t |-> "str", v |-> chunks]
JArr(items) == [t |-> "arr", v |-> items]
JObj(fields) == [t |-> "obj", v |-> fields]
EmptyDict == JObj([key \in {} |-> JNull])

Ok(val) == [exc |-> "", val |-> val]
Raise(exc) == [exc |-> exc, val |-> JNull]

\* x.get(key, default): only a dict has .get
DictGet(x, key, default) ==
    IF x.t = "obj"
    THEN Ok(IF key \in DOMAIN x.v THEN x.v[key] ELSE default)
    ELSE Raise("AttributeError")

\* x[0]; the first character of a str is a str that no later step can read
Index0(x) ==
    CASE x.t = "arr" -> IF Len(x.v) > 0 THEN Ok(x.v[1]) ELSE Raise("IndexError")
      [] x.t = "obj" -> Raise("KeyError")
      [] x.t = "str" -> IF Len(x.v) > 0 THEN Ok(JStr(<<"x[0]">>)) ELSE Raise("IndexError")
      [] OTHER -> Raise("TypeError")

NoAnalysis == JStr(<<"No AI analysis returned.">>)

\* res.get(key, default) and res[0] as later steps of one expression: an
\* exception raised by an earlier step skips them
GetOf(res, key, default) ==
    IF res.exc # "" THEN res ELSE DictGet(res.val, key, default)

Index0Of(res) == IF res.exc # "" THEN res ELSE Index0(res.val)

extract_text_empty_default(gemini_data) ==
    GetOf(Index0Of(GetOf(GetOf(Index0Of(
        DictGet(gemini_data, "candidates", JArr(<<>>))),
        "content", EmptyDict),
        "parts", JArr(<<>>))),
        "text", NoAnalysis)

\* gemini_data.get("candidates", [{}])[0].get("content", {})
\*            .get("parts", [{}])[0].get("text", "No AI analysis returned.")
extract_text(gemini_data) ==
    GetOf(Index0Of(GetOf(GetOf(Index0Of(
        DictGet(gemini_data, "candidates", JArr(<<EmptyDict>>))),
        "content", EmptyDict),
        "parts", JArr(<<EmptyDict>>))),
        "text", NoAnalysis)

----------------------------------------------------------------------------
(* ask_gemini_analysis                                                     *)

KeyUnset == "<unset>"

NoImage == "<None>"

SkipMessage == JStr(<<"GEMINI_API_KEY not set. Skipping AI analysis.">>)

\* `if not x` for an optional str: None and "" are falsy
Falsy(x) == x \in {KeyUnset, NoImage, ""}

prompt_text(lat, lon, solar, aqi, image_base64) ==
    <<"Location: lat=", lat, ", lon=", lon, "\nSolar radiation score: ", solar,
      "\nAir quality index: ", aqi,
      "\nExplain the livability of this location based on these scores, and suggest interventions or improvements. ">>
    \o (IF Falsy(image_base64) THEN <<>>
        ELSE <<"Analyze this image together with the scores.\n">>)

payload(lat, lon, solar, aqi, image_base64) ==
    [contents |-> <<[parts |->
        <<[kind |-> "text", data |-> prompt_text(lat, lon, solar, aqi, image_base64)]>>
        \o (IF Falsy(image_base64) THEN <<>>
            ELSE <<[kind |-> "inline_data", data |-> <<"image/jpeg", image_base64>>]>>)]>>]

ThePost(key, lat, lon, solar, aqi, image_base64) ==
    [method |-> "POST", key |-> key, timeout |-> 30,
     json |-> payload(lat, lon, solar, aqi, image_base64)]

ask_gemini_analysis_no_check(gemini_api_key, lat, lon, solar, aqi, image_base64) ==
    [returned |-> FALSE, value |-> JNull,
     posts |-> <<ThePost(gemini_api_key, lat, lon, solar, aqi, image_base64)>>]

\* the call up to its suspension point: either it has returned a value, or it
\* has issued the POST and awaits its end
ask_gemini_analysis(gemini_api_key, lat, lon, solar, aqi, image_base64) ==
    IF Falsy(gemini_api_key)
    THEN [returned |-> TRUE, value |-> SkipMessage, posts |-> <<>>]
    ELSE [returned |-> FALSE, value |-> JNull,
          posts |-> <<ThePost(gemini_api_key, lat, lon, solar, aqi, image_base64)>>]

(* How the POST ends: client.post raises (network error, or the 30 second  *)
(* timeout), or a response arrives with a status and a body.  body 0 is a  *)
(* body that is not JSON, body i > 0 is the JSON value Bodies[i].          *)
ATextValue == JStr(<<"This location is livable.">>)

Part(fields) == JObj([content |-> JObj([parts |-> JArr(<<JObj(fields)>>)])])

Bodies ==
    << JObj([candidates |-> JArr(<<Part([text |-> ATextValue])>>)]),
       JObj([error |-> JStr(<<"quota">>)]),
       JObj([candidates |-> JArr(<<EmptyDict>>)]),
       JObj([candidates |-> JArr(<<JObj([content |-> EmptyDict])>>)]),
       JObj([candidates |-> JArr(<<Part([role |-> JStr(<<"model">>)])>>)]),
       JObj([candidates |-> JArr(<<>>)]),
       JObj([candidates |-> JArr(<<JObj([content |-> JObj([parts |-> JArr(<<>>)])])>>)]),
       JObj([candidates |-> JArr(<<Part([text |-> JNull])>>)]),
       JArr(<<>>),
       JObj([candidates |-> JNull]) >>

NetworkErrors == {"ConnectError", "ReadTimeout"}

Statuses == {200, 404, 503}

Replies ==
    [kind : {"raise"}, exc : NetworkErrors, status : {0}, body : {0}]
    \cup [kind : {"response"}, exc : {""}, status : Statuses \ {200}, body : {0}]
    \cup [kind : {"response"}, exc : {""}, status : {200}, body : 0..Len(Bodies)]

NoReply == [kind |-> "none", exc |-> "", status |-> 0, body |-> 0]

Is2xx(status) == status >= 200 /\ status < 300

Failed(detail) == JStr(<<"Failed to get Gemini AI analysis: ">> \o <<detail>>)

Propagated(exc) == [t |-> "raised", v |-> exc]

ask_gemini_analysis_reply_uncaught(reply) ==
    IF reply.kind = "raise" THEN
        IF reply.exc = "ReadTimeout" THEN Propagated(reply.exc) ELSE Failed(reply.exc)
    ELSE IF ~Is2xx(reply.status) THEN Failed("HTTPStatusError")
    ELSE IF reply.body = 0 THEN Failed("JSONDecodeError")
    ELSE LET res == extract_text(Bodies[reply.body]) IN
         IF res.exc # "" THEN Failed(res.exc) ELSE res.val

\* the try block from the end of the await, and the except clause
ask_gemini_analysis_reply(reply) ==
    IF reply.kind = "raise" THEN Failed(reply.exc)
    ELSE IF ~Is2xx(reply.status) THEN Failed("HTTPStatusError")
    ELSE IF reply.body = 0 THEN Failed("JSONDecodeError")
    ELSE LET res == extract_text(Bodies[reply.body]) IN
         IF res.exc # "" THEN Failed(res.exc) ELSE res.val

----------------------------------------------------------------------------
(* State                                                                   *)

VARIABLES
    GEMINI_API_KEY,  \* os.environ["GEMINI_API_KEY"], or KeyUnset
    pc,              \* per request: "idle", "rejected", "awaiting", "done", "error"
    query,           \* per request: the query parameters it arrived with
    calc,            \* per request: the locals of its calculate_livability_score call
    outbox,          \* per request: the outbound POSTs issued on its behalf
    reply,           \* per request: how its POST ended
    gemini_text,     \* per request: what ask_gemini_analysis returned
    response,        \* per request: the response sent to the client
    log,             \* per request: the core steps run for it, in order
    args,            \* per direct call of the calculator: its arguments
    returned,        \* the direct calls that have returned
    ret              \* per direct call: the locals at the return

vars == <<GEMINI_API_KEY, pc, query, calc, outbox, reply, gemini_text, response,
          log, args, returned, ret>>

reqVars == <<GEMINI_API_KEY, pc, query, calc, outbox, reply, gemini_text,
             response, log>>

calcVars == <<args, returned, ret>>

\* bounds
NumRequests == 2
MaxSolarStep == 3
MaxAqiStep == 11

Requests == 1..NumRequests

Calls == {1, 2}

Missing == [k |-> "missing", v |-> 0]

\* query parameters of the endpoint model
LatInputs == {Fin(Milli(-90)), Fin(Milli(91))}
LonInputs == {Fin(Milli(180)), Fin(Milli(181))}
SolarInputs == {Fin(3500), Missing}
AqiInputs == {Fin(Milli(30)), Fin(Milli(100))}

Queries == [lat : LatInputs, lon : LonInputs, solar : SolarInputs, aqi : AqiInputs]

NoQuery == [lat |-> Missing, lon |-> Missing, solar |-> Missing, aqi |-> Missing]

KeyValues == {KeyUnset, "", "secret"}

\* arguments of the direct calls: a grid of steps of 2.5 (solar) and 10 (aqi),
\* one value just above an aqi band edge, and the non-finite floats
NonFinite == {NaN, PInf, NInf}
SolarArgs == {Fin(2500 * n) : n \in -1..MaxSolarStep} \cup NonFinite
AqiArgs == {Fin(Milli(10) * n) : n \in -5..MaxAqiStep} \cup {Fin(20002)} \cup NonFinite

NoLocals ==
    [ solar_score |-> NaN, aqi_score |-> NaN, combined_score |-> NaN,
      score_label |-> "", habitable_years |-> 0 ]

NoResponse == [status |-> 0]

ReqInit ==
    /\ pc = [r \in Requests |-> "idle"]
    /\ query = [r \in Requests |-> NoQuery]
    /\ calc = [r \in Requests |-> NoLocals]
    /\ outbox = [r \in Requests |-> <<>>]
    /\ reply = [r \in Requests |-> NoReply]
    /\ gemini_text = [r \in Requests |-> JNull]
    /\ response = [r \in Requests |-> NoResponse]
    /\ log = [r \in Requests |-> <<>>]

CalcInit ==
    /\ returned = {}
    /\ ret = [i \in Calls |-> NoLocals]

Init ==
    /\ GEMINI_API_KEY \in KeyValues
    /\ ReqInit
    /\ args = [i \in Calls |-> [solar |-> Fin(0), aqi |-> Fin(0)]]
    /\ CalcInit

InitCalc ==
    /\ GEMINI_API_KEY = KeyUnset
    /\ ReqInit
    /\ args \in [Calls -> [solar : SolarArgs, aqi : AqiArgs]]
    /\ CalcInit

----------------------------------------------------------------------------
(* The endpoint                                                            *)

valid_query_lax(q) ==
    /\ \A name \in DOMAIN q : q[name] # Missing
    /\ FGe(q.lat, Fin(Milli(-90)))
    /\ FLe(q.lat, Fin(Milli(91)))
    /\ FGe(q.lon, Fin(Milli(-180)))

\* Query(...) makes a parameter required; ge / le bound lat and lon
valid_query(q) ==
    /\ \A name \in DOMAIN q : q[name] # Missing
    /\ FGe(q.lat, Fin(Milli(-90)))
    /\ FLe(q.lat, Fin(Milli(90)))
    /\ FGe(q.lon, Fin(Milli(-180)))
    /\ FLe(q.lon, Fin(Milli(180)))

DataSource == "Solar Radiation + AQI dataset + Eco Prediction Insight"

LivabilityResult(q, locals, text) ==
    [ location_latitude |-> q.lat,
      location_longitude |-> q.lon,
      solar_radiation_score |-> q.solar,
      air_quality_index |-> q.aqi,
      calculated_livability_score |-> locals.score_label,
      estimated_habitable_years |-> locals.habitable_years,
      gemini_analysis |-> text,
      data_source |-> DataSource ]

\* The return statement: the model validates gemini_analysis as a str; a
\* failed validation, like any exception out of the handler, is a 500.
Respond(q, locals, text) ==
    IF text.t = "str"
    THEN [status |-> 200, body |-> LivabilityResult(q, locals, text)]
    ELSE [status |-> 500]

Finish(r, q, locals, text) ==
    LET resp == Respond(q, locals, text) IN
    /\ gemini_text' = [gemini_text EXCEPT ![r] = text]
    /\ response' = [response EXCEPT ![r] = resp]
    /\ pc' = [pc EXCEPT ![r] = IF resp.status = 200 THEN "done" ELSE "error"]

\* the boundary layer refuses a request that fails validation
Reject(r, q) ==
    /\ pc[r] = "idle"
    /\ ~valid_query(q)
    /\ pc' = [pc EXCEPT ![r] = "rejected"]
    /\ query' = [query EXCEPT ![r] = q]
    /\ response' = [response EXCEPT ![r] = [status |-> 422]]
    /\ UNCHANGED <<GEMINI_API_KEY, calc, outbox, reply, gemini_text, log>>
    /\ UNCHANGED calcVars

\* the handler from its start to its suspension point, or to its end when
\* ask_gemini_analysis returns without awaiting
get_livability_score(r, q) ==
    /\ pc[r] = "idle"
    /\ valid_query(q)
    /\ LET locals == calculate_livability_score(q.solar, q.aqi)
           ask == ask_gemini_analysis(GEMINI_API_KEY, q.lat, q.lon, q.solar, q.aqi, NoImage)
       IN
       /\ query' = [query EXCEPT ![r] = q]
       /\ calc' = [calc EXCEPT ![r] = locals]
       /\ outbox' = [outbox EXCEPT ![r] = @ \o ask.posts]
       /\ log' = [log EXCEPT ![r] = @ \o <<"calculate", "ask_gemini">>
                     \o [i \in 1..Len(ask.posts) |-> "post"]]
       /\ IF ask.returned
          THEN Finish(r, q, locals, ask.value)
          ELSE /\ pc' = [pc EXCEPT ![r] = "awaiting"]
               /\ UNCHANGED <<gemini_text, response>>
    /\ UNCHANGED <<GEMINI_API_KEY, reply>>
    /\ UNCHANGED calcVars

post_ends_retry(r, rep) ==
    /\ pc[r] = "awaiting"
    /\ reply' = [reply EXCEPT ![r] = rep]
    /\ IF rep.kind = "raise" /\ Len(outbox[r]) < 2
       THEN /\ outbox' = [outbox EXCEPT ![r] = @ \o <<@[1]>>]
            /\ log' = [log EXCEPT ![r] = @ \o <<"post">>]
            /\ UNCHANGED <<pc, gemini_text, response>>
       ELSE /\ Finish(r, query[r], calc[r], ask_gemini_analysis_reply(rep))
            /\ UNCHANGED <<outbox, log>>
    /\ UNCHANGED <<GEMINI_API_KEY, query, calc>>
    /\ UNCHANGED calcVars

\* the POST ends and the handler runs from its suspension point to its end
post_ends(r, rep) ==
    /\ pc[r] = "awaiting"
    /\ reply' = [reply EXCEPT ![r] = rep]
    /\ Finish(r, query[r], calc[r], ask_gemini_analysis_reply(rep))
    /\ UNCHANGED <<GEMINI_API_KEY, query, calc, outbox, log>>
    /\ UNCHANGED calcVars

Next ==
    \/ \E r \in Requests, q \in Queries : Reject(r, q)
    \/ \E r \in Requests, q \in Queries : get_livability_score(r, q)
    \/ \E r \in Requests, rep \in Replies : post_ends(r, rep)

Spec == Init /\ [][Next]_vars

\* a direct call of the calculator
Calculate(i) ==
    /\ i \notin returned
    /\ returned' = returned \cup {i}
    /\ ret' = [ret EXCEPT ![i] = calculate_livability_score(args[i].solar, args[i].aqi)]
    /\ UNCHANGED args
    /\ UNCHANGED reqVars

NextCalc == \E i \in Calls : Calculate(i)

SpecCalc == InitCalc /\ [][NextCalc]_vars

----------------------------------------------------------------------------
(* Properties of calculate_livability_score, checked under SpecCalc        *)

Bands == {<<"High", 80>>, <<"Medium", 50>>, <<"Low", 20>>}

Band(locals) == <<locals.score_label, locals.habitable_years>>

Rank(label) == CASE label = "Low" -> 1 [] label = "Medium" -> 2 [] label = "High" -> 3

ClampInt(x, lo, hi) == IF x < lo THEN lo ELSE IF x > hi THEN hi ELSE x

MaxInt(x, y) == IF x > y THEN x ELSE y

\* twice the combined score of the claim, in thousandths, for finite arguments:
\* clamp(solar / 5 * 100, 0, 100) + max(0, 100 - aqi)
TwiceCombined(a) ==
    ClampInt(20 * a.solar.v, 0, 100000) + MaxInt(0, 100000 - a.aqi.v)

FiniteArgs(a) == IsFin(a.solar) /\ IsFin(a.aqi)

\* C1: every call returns one of ("High", 80), ("Medium", 50), ("Low", 20);
\* for finite arguments the pair is the one of the band of the combined
\* score: >= 70 High, >= 40 and < 70 Medium, < 40 Low (70 itself is High,
\* 40 itself is Medium); an infinite solar counts as its clamp, an aqi of
\* +inf as an AQI sub-score of 0, an aqi of -inf as a combined score of +inf.
C1_BandOfCombined ==
    \A i \in returned :
        /\ Band(ret[i]) \in Bands
        /\ FiniteArgs(args[i]) =>
              LET c2 == TwiceCombined(args[i]) IN
              /\ c2 >= 140000 => Band(ret[i]) = <<"High", 80>>
              /\ (c2 >= 80000 /\ c2 < 140000) => Band(ret[i]) = <<"Medium", 50>>
              /\ c2 < 80000 => Band(ret[i]) = <<"Low", 20>>
        /\ (~IsNaN(args[i].solar) /\ args[i].aqi = NInf) => Band(ret[i]) = <<"High", 80>>
        /\ (args[i].solar = PInf /\ args[i].aqi = PInf) => Band(ret[i]) = <<"Medium", 50>>
        /\ (args[i].solar = NInf /\ args[i].aqi = PInf) => Band(ret[i]) = <<"Low", 20>>

\* one call with a combined score of exactly 70 and one just below 40
C1_Witness ==
    \E i, j \in returned :
        /\ FiniteArgs(args[i]) /\ TwiceCombined(args[i]) = 140000
        /\ ret[i].score_label = "High"
        /\ FiniteArgs(args[j]) /\ TwiceCombined(args[j]) = 79998
        /\ ret[j].score_label = "Low"

InUnitRange(x) == FGe(x, Fin(0)) /\ FLe(x, Fin(Milli(100)))

IsTheExample(a) == a.solar = Fin(0) /\ a.aqi = Fin(Milli(-50))

C9_Asymmetry(i) ==
    /\ FLt(args[i].aqi, Fin(0)) => FGt(ret[i].aqi_score, Fin(Milli(100)))
    /\ IsTheExample(args[i]) =>
          /\ ret[i].combined_score = Fin(Milli(75))
          /\ Band(ret[i]) = <<"High", 80>>

C10_Monotone ==
    \A i, j \in returned :
        /\ (args[i].aqi = args[j].aqi /\ FLe(args[i].solar, args[j].solar)) =>
              /\ Rank(ret[i].score_label) <= Rank(ret[j].score_label)
              /\ ret[i].habitable_years <= ret[j].habitable_years
        /\ (args[i].solar = args[j].solar /\ FLe(args[i].aqi, args[j].aqi)) =>
              /\ Rank(ret[j].score_label) <= Rank(ret[i].score_label)
              /\ ret[j].habitable_years <= ret[i].habitable_years

\* two calls that differ in aqi only and land in different bands
C10_Witness ==
    \E i, j \in returned :
        /\ args[i].solar = args[j].solar
        /\ FLt(args[i].aqi, args[j].aqi)
        /\ Rank(ret[j].score_label) < Rank(ret[i].score_label)

----------------------------------------------------------------------------
(* Properties of the endpoint and of ask_gemini_analysis, checked under Spec *)

Accepted(r) == pc[r] \in {"awaiting", "done", "error"}

Ended(r) == pc[r] \in {"done", "error"}

SameValue(a, b) == a.t = b.t /\ a.v = b.v

JsonReply(r) == reply[r].kind = "response" /\ Is2xx(reply[r].status) /\ reply[r].body > 0

HasKey(x, key) == x.t = "obj" /\ key \in DOMAIN x.v

NonEmptyList(x) == x.t = "arr" /\ Len(x.v) > 0

EmptyCandidates(b) ==
    /\ HasKey(b, "candidates")
    /\ b.v.candidates.t = "arr"
    /\ Len(b.v.candidates.v) = 0

\* C2: a 2xx JSON reply whose candidates list is empty makes
\* ask_gemini_analysis return exactly "No AI analysis returned.".
C2_EmptyCandidates ==
    \A r \in Requests :
        (JsonReply(r) /\ EmptyCandidates(Bodies[reply[r].body])) =>
            SameValue(gemini_text[r], NoAnalysis)

Images == {NoImage, "", "aGVsbG8="}

\* C3: with GEMINI_API_KEY unset, ask_gemini_analysis returns exactly the
\* skip message, for every image too, and issues no outbound request.
C3_NoCredential ==
    GEMINI_API_KEY = KeyUnset =>
        \A r \in Requests : Accepted(r) =>
            /\ pc[r] = "done"
            /\ SameValue(gemini_text[r], SkipMessage)
            /\ outbox[r] = <<>>
            /\ reply[r] = NoReply
            /\ \A img \in Images :
                  LET ask == ask_gemini_analysis(GEMINI_API_KEY, query[r].lat,
                                 query[r].lon, query[r].solar, query[r].aqi, img)
                  IN ask.returned /\ SameValue(ask.value, SkipMessage) /\ ask.posts = <<>>

C3_Witness ==
    \E r \in Requests :
        GEMINI_API_KEY = KeyUnset /\ pc[r] = "done" /\ response[r].status = 200

FailedReply(r) ==
    \/ reply[r].kind = "raise"
    \/ reply[r].kind = "response" /\ ~Is2xx(reply[r].status)

\* C4: with a credential, when the POST fails (network error, timeout or a
\* non-2xx status) ask_gemini_analysis raises nothing and returns a string
\* that starts with "Failed to get Gemini AI analysis: ".
C4_FailureText ==
    \A r \in Requests : FailedReply(r) =>
        /\ ~Falsy(GEMINI_API_KEY)
        /\ gemini_text[r].t = "str"
        /\ Len(gemini_text[r].v) > 0
        /\ Head(gemini_text[r].v) = "Failed to get Gemini AI analysis: "

\* a request whose POST timed out and a request whose POST got a non-2xx status
C4_Witness ==
    \E r, o \in Requests :
        /\ reply[r].exc = "ReadTimeout" /\ Ended(r)
        /\ reply[o].kind = "response" /\ reply[o].status = 503 /\ Ended(o)

PathPresent(b) ==
    /\ HasKey(b, "candidates")
    /\ NonEmptyList(b.v.candidates)
    /\ HasKey(b.v.candidates.v[1], "content")
    /\ HasKey(b.v.candidates.v[1].v.content, "parts")
    /\ NonEmptyList(b.v.candidates.v[1].v.content.v.parts)
    /\ HasKey(b.v.candidates.v[1].v.content.v.parts.v[1], "text")

ValueAtPath(b) == b.v.candidates.v[1].v.content.v.parts.v[1].v.text

LacksKey(x, key) == x.t = "obj" /\ key \notin DOMAIN x.v

\* every level above the missing key is present
KeyMissing(b) ==
    \/ LacksKey(b, "candidates")
    \/ /\ HasKey(b, "candidates")
       /\ NonEmptyList(b.v.candidates)
       /\ \/ LacksKey(b.v.candidates.v[1], "content")
          \/ /\ HasKey(b.v.candidates.v[1], "content")
             /\ \/ LacksKey(b.v.candidates.v[1].v.content, "parts")
                \/ /\ HasKey(b.v.candidates.v[1].v.content, "parts")
                   /\ NonEmptyList(b.v.candidates.v[1].v.content.v.parts)
                   /\ LacksKey(b.v.candidates.v[1].v.content.v.parts.v[1], "text")

\* C5: on a 2xx reply with a JSON object body, ask_gemini_analysis returns the
\* value at candidates[0].content.parts[0].text when the path is present, and
\* "No AI analysis returned." when a key of the path is missing at its level.
C5_Extraction ==
    \A r \in Requests : JsonReply(r) =>
        LET b == Bodies[reply[r].body] IN
        /\ PathPresent(b) => SameValue(gemini_text[r], ValueAtPath(b))
        /\ KeyMissing(b) => SameValue(gemini_text[r], NoAnalysis) /\ pc[r] = "done"

\* one request got the text of a full body, another the fallback for a body
\* without candidates
C5_Witness ==
    \E r, o \in Requests :
        /\ JsonReply(r) /\ PathPresent(Bodies[reply[r].body])
        /\ SameValue(gemini_text[r], ATextValue)
        /\ JsonReply(o) /\ LacksKey(Bodies[reply[o].body], "candidates")
        /\ SameValue(gemini_text[o], NoAnalysis)

\* C6: a call issues at most one POST; once the POST has ended the call has
\* returned and the request has had exactly one.
C6_SinglePost ==
    \A r \in Requests :
        /\ Len(outbox[r]) <= 1
        /\ reply[r] # NoReply => Ended(r) /\ Len(outbox[r]) = 1

\* a request whose only POST failed and that has been answered
C6_Witness ==
    \E r \in Requests :
        reply[r].kind = "raise" /\ pc[r] = "done" /\ Len(outbox[r]) = 1

\* C7: the handler of an accepted request always ends in a response that
\* echoes the request's own lat, lon, solar and aqi and carries the label and
\* years of calculate_livability_score of its own solar and aqi, whatever the
\* outcome of the AI step.
C7_AlwaysAnswered ==
    \A r \in Requests : Ended(r) =>
        /\ response[r].status = 200
        /\ response[r].body.location_latitude = query[r].lat
        /\ response[r].body.location_longitude = query[r].lon
        /\ response[r].body.solar_radiation_score = query[r].solar
        /\ response[r].body.air_quality_index = query[r].aqi
        /\ LET c2 == TwiceCombined(query[r])
               band == IF c2 >= 140000 THEN <<"High", 80>>
                       ELSE IF c2 >= 80000 THEN <<"Medium", 50>> ELSE <<"Low", 20>>
           IN <<response[r].body.calculated_livability_score,
                response[r].body.estimated_habitable_years>> = band

Present(q) == \A name \in DOMAIN q : q[name].k # "missing"

InRange(q) ==
    /\ q.lat.k = "fin" /\ q.lat.v >= -90000 /\ q.lat.v <= 90000
    /\ q.lon.k = "fin" /\ q.lon.v >= -180000 /\ q.lon.v <= 180000

Arrived(r) == pc[r] # "idle"

Position(events, e) == CHOOSE i \in 1..Len(events) : events[i] = e

\* C8: a request with lat outside [-90, 90], lon outside [-180, 180] or a
\* missing parameter is rejected: no calculator run, no ask_gemini_analysis
\* call, no outbound request; for an accepted request the calculator runs
\* before the AI request.
C8_Boundary ==
    \A r \in Requests : Arrived(r) =>
        IF Present(query[r]) /\ InRange(query[r])
        THEN /\ Accepted(r)
             /\ Head(log[r]) = "calculate"
             /\ calc[r] # NoLocals
             /\ \A i \in 1..Len(log[r]) :
                   log[r][i] \in {"ask_gemini", "post"} => Position(log[r], "calculate") < i
        ELSE /\ pc[r] = "rejected"
             /\ log[r] = <<>>
             /\ calc[r] = NoLocals
             /\ outbox[r] = <<>>
             /\ response[r].status = 422

\* a request with latitude 91 was rejected and another, accepted, has its POST out
C8_Witness ==
    \E r, o \in Requests :
        /\ pc[r] = "rejected" /\ query[r].lat = Fin(Milli(91)) /\ Present(query[r])
        /\ pc[o] = "awaiting" /\ Len(outbox[o]) = 1

====
